---- MODULE Spec2Model ----
(***************************************************************************)
(* Animation state, wheel/layout input and the Reveal component of the     *)
(* portfolio page, in its three variants:                                  *)
(*   "App"       src/src/App.tsx      (factor 0.08, no skew)               *)
(*   "part_000"  src/unnamed/part_000 (lerp, factor 0.05, skew)            *)
(*   "part_001"  src/unnamed/part_001 (lerp, 0.05, skew, vertical mode)    *)
(*                                                                         *)
(* NUMBERS.  Every quantity of the page is a JavaScript number, a binary   *)
(* floating-point value: each arithmetic operation returns the exact       *)
(* result rounded to the nearest representable value, ties to even.  The   *)
(* model keeps that arithmetic at a reduced width: a number is an integer  *)
(* count of quanta of 2^-FracBits px, and a representable number has a     *)
(* significand of at most Prec bits.  Round/RoundQ are the rounding step   *)
(* of every operation; Add, Sub, MulQ are +, - and * of the source.        *)
(***************************************************************************)
EXTENDS Integers, Naturals, Sequences, FiniteSets, TLC

\* ------------------------------------------------------------ numbers

\* Width of the significand (the binary64 significand has 53 bits).
Prec == 10

\* The smallest positive number is 2^-FracBits.
FracBits == 8

RECURSIVE Pow2(_)
Pow2(n) == IF n <= 0 THEN 1 ELSE 2 * Pow2(n - 1)

\* One pixel (the number 1), in quanta.
Unit == Pow2(FracBits)

\* The number n (an integer of the source text), in quanta.
Px(n) == n * Unit

Abs(x) == IF x < 0 THEN -x ELSE x

Sign(x) == IF x < 0 THEN -1 ELSE 1

\* Math.max / Math.min
Max(x, y) == IF x >= y THEN x ELSE y

Min(x, y) == IF x <= y THEN x ELSE y

\* floor(log2 n) for n >= 1
RECURSIVE Log2(_)
Log2(n) == IF n <= 1 THEN 0 ELSE 1 + Log2(n \div 2)

\* The spacing of representable numbers at magnitude m (quanta).
Ulp(m) == IF m < Pow2(Prec) THEN 1 ELSE Pow2(Log2(m) - Prec + 1)

\* The exact rational a / b (b > 0, in quanta) rounded to the nearest
\* representable number, ties to the even significand.
RoundQ(a, b) ==
    LET m    == Abs(a)
        step == Ulp(m \div b)
        d    == b * step
        k    == m \div d
        rem  == m - k * d
        up   == (2 * rem > d) \/ (2 * rem = d /\ k % 2 = 1)
    IN  Sign(a) * (IF up THEN k + 1 ELSE k) * step

Round(x) == RoundQ(x, 1)

Representable(x) == Round(x) = x

\* x + y, x - y of the source
Add(x, y) == Round(x + y)

Sub(x, y) == Round(x - y)

\* x * (n / d) of the source, for a literal factor n / d
MulQ(x, n, d) == RoundQ(x * n, d)


\* x / y of the source (y # 0)
Div(x, y) == Sign(y) * RoundQ(x * Unit, Abs(y))

\* ------------------------------------------------------------ bounds

\* Events (input events, timer callbacks, animation frames) followed in one
\* run of the page after mount.
MaxEvents == 4

\* Input events followed before the page is left to settle.
MaxSettleInputs == 2

\* Calls of animate() counted in one run (the count stops there).
MaxFrames == 32

\* Clicks on the copy button followed in one run.
MaxClicks == 3

\* ------------------------------------------------------------ inputs

Variants == {"App", "part_000", "part_001"}

\* e.deltaY of a wheel event (px)
Deltas == {Px(100), Px(600), Px(0 - 50)}

\* window.innerWidth (px)
InnerWidths == {Px(1200), Px(800)}

\* containerRef.current.scrollWidth (px): the content is usually wider than
\* the viewport, but nothing in the page guarantees it.
ScrollWidths == {Px(1700), Px(1500), Px(1000)}

\* e.clientX, e.clientY of a pointer move (px)
Points == {<<Px(500), Px(300)>>}

\* flowSlideRef.current.getBoundingClientRect(): in view, or off to the right
SlideRects == {[left |-> Px(600), width |-> Px(480)],
               [left |-> Px(2000), width |-> Px(480)]}

\* ------------------------------------------------------------ constants

\* The width breakpoint of the vertical mode (px).
Breakpoint == 1024

\* The length of the progress track the thumb moves along (px).
TrackLength == 224

\* The literal n / d of the source text, as a number.
Lit(n, d) == RoundQ(n * Unit, d)

\* Scroll easing factor per variant: 0.08 or 0.05, as numerator/denominator.
ScrollFactor(v) == IF v = "App" THEN <<2, 25>> ELSE <<1, 20>>

\* The cursor easing at 0.25 in every variant.
CursorFactor_Quarter(v) == <<1, 4>>

\* Cursor easing factor: 0.15 in part_000, 0.25 in part_001.
CursorFactor(v) == IF v = "part_001" THEN <<1, 4>> ELSE <<3, 20>>

\* Parallax damping: 0.25 in App.tsx, 0.2 elsewhere.
ParallaxFactor(v) == IF v = "App" THEN <<1, 4>> ELSE <<1, 5>>

HasSkew(v) == v # "App"

HasVerticalMode(v) == v = "part_001"

\* ------------------------------------------------------------ lerp

\* lerp with start and end exchanged.
lerp_Swapped(start, end, factor) ==
    Add(end, MulQ(Sub(start, end), factor[1], factor[2]))

\* lerp stepping twice as far as its factor says.
lerp_Overshoot(start, end, factor) ==
    Add(start, MulQ(Sub(end, start), 2 * factor[1], factor[2]))

\* const lerp = (start, end, factor) => start + (end - start) * factor
lerp(start, end, factor) ==
    Add(start, MulQ(Sub(end, start), factor[1], factor[2]))

\* ------------------------------------------------------------ state

VARIABLES
    variant,            \* which of the three page variants runs
    mounted,            \* the App component is mounted (refs attached)
    innerWidth,         \* window.innerWidth
    currentX,           \* state.current.currentX
    targetX,            \* state.current.targetX
    maxScroll,          \* state.current.maxScroll
    skew,               \* state.current.skew
    mouse,              \* mouse.current
    cursor,             \* cursor.current
    containerTransform, \* containerRef.current.style.transform
    cursorTransform,    \* cursorRef.current.style.transform
    thumbTransform,     \* progressThumbRef.current.style.transform
    flowTextTransform,  \* flowTextRef.current.style.transform
    timers,             \* setTimeout callbacks not yet run
    rafPending,         \* requestAnimationFrame(animate) requests outstanding
    isVisible,          \* Reveal: isVisible, per instance
    observing,          \* Reveal: the observer still observes its element
    revealMounted,      \* Reveal: the instance is mounted
    samples,            \* history: intersection ratios measured, per instance
    listeners,          \* the event listeners registered and not removed
    cursorClasses,      \* the class list of the cursor element
    introLoaded,        \* introLoaded (the opening animation has started)
    maxScrollPeak,      \* history: the largest maxScroll so far
    label,              \* the copy button's innerText
    pendingWrites,      \* clipboard writes neither fulfilled nor rejected
    revertTimers,       \* setTimeout callbacks that restore the label
    nFrames,            \* history: the number of animate() calls
    thumbDivisor,       \* history: divisors of the last frame's thumb step
    copyLast,           \* history: the last clipboard step, the state before
    wheelLog,           \* history: the wheel events handled
    last,               \* history: the last operation and the state before it
    nEvents,            \* history: the number of events so far
    lerpIn,             \* lerp alone: the arguments start, end
    lerpOut             \* lerp alone: the factor applied and the result

appVars == <<variant, mounted, innerWidth, currentX, targetX, maxScroll, skew,
             mouse, cursor, containerTransform, cursorTransform,
             thumbTransform, flowTextTransform, timers, rafPending,
             listeners, cursorClasses, introLoaded, nFrames, thumbDivisor,
             maxScrollPeak, wheelLog, last, nEvents>>

copyVars == <<label, pendingWrites, revertTimers, copyLast>>

revealVars == <<isVisible, observing, revealMounted, samples>>

lerpVars == <<lerpIn, lerpOut>>

vars == <<appVars, revealVars, lerpVars, copyVars>>

\* ------------------------------------------------------------ helpers

\* The zoom with its progress left unclamped.
ZoomLevel_Unclamped(c, w) ==
    LET zoomProgress == Div(Abs(c), MulQ(w, 1, 4))
    IN  Sub(Lit(3, 2), MulQ(zoomProgress, 1, 2))

\* Zoom of a frame: 1.5 - min(|currentX| / (innerWidth * 0.25), 1) * 0.5
ZoomLevel(c, w) ==
    LET zoomProgress == Min(Div(Abs(c), MulQ(w, 1, 4)), Px(1))
    IN  Sub(Lit(3, 2), MulQ(zoomProgress, 1, 2))

\* The thumb placed on a track of length 100.
ThumbPos_Percent(c, ms) ==
    LET scrollPercentage == Min(Max(Div(c, ms), 0), Px(1))
    IN  MulQ(scrollPercentage, 100, 1)

\* Thumb position of a frame: min(max(currentX / maxScroll, 0), 1) * 224
ThumbPos(c, ms) ==
    LET scrollPercentage == Min(Max(Div(c, ms), 0), Px(1))
    IN  MulQ(scrollPercentage, TrackLength, 1)

\* The parallax offset written to the flow text, from the slide's rectangle.
FlowOffset(v, w, rect) ==
    LET offset == Sub(w, Add(rect.left, MulQ(rect.width, 1, 2)))
    IN  MulQ(0 - offset, ParallaxFactor(v)[1], ParallaxFactor(v)[2])

\* window.innerWidth >= 1024, the test of part_001; the other variants
\* have no vertical mode.
Horizontal(v, w) == HasVerticalMode(v) => w >= Px(Breakpoint)

\* The state before an operation, kept with the operation's name and inputs,
\* and with the name and the class list of the operation before that.
Pre(op, d, sw) ==
    [op |-> op, d |-> d, sw |-> sw, currentX |-> currentX,
     targetX |-> targetX, maxScroll |-> maxScroll, skew |-> skew,
     innerWidth |-> innerWidth, thumb |-> thumbTransform,
     mouse |-> mouse, cursor |-> cursor, cursorT |-> cursorTransform,
     containerT |-> containerTransform, flowT |-> flowTextTransform,
     classes |-> cursorClasses, op0 |-> last.op, classes0 |-> last.classes]

\* The setTimeout calls of mount that re-measure the layout.
LayoutTimers(v) ==
    IF v = "part_001" THEN {"layout500"} ELSE {"layout100", "layout500"}

\* setTimeout(() => setIntroLoaded(true), 100), started by the layout effect.
IntroTimers == {"intro100"}

\* The className of the cursor element as rendered.
CursorClassName(v) ==
    {"fixed", "top-0", "left-0", "w-5", "h-5", "bg-[#0f0f0f]/20",
     "rounded-full", "pointer-events-none", "z-[9999]"}
       \cup (IF v = "App"
             THEN {"transition-[width,height,background-color]",
                   "duration-300", "ease-out"}
             ELSE {})
       \cup (IF v = "part_001" THEN {"hidden", "lg:block"} ELSE {})

\* The classes of the resting and of the hovering cursor, as the handlers
\* name them: part_001 names them with the lg: prefix.
RestClasses(v) ==
    IF v = "part_001" THEN {"lg:w-5", "lg:h-5"} ELSE {"w-5", "h-5"}

HoverClasses(v) ==
    IF v = "part_001" THEN {"lg:w-8", "lg:h-8", "bg-[#ffea02]/50"}
    ELSE {"w-8", "h-8", "bg-[#ffea02]/50"}

\* hoverStart: classList.remove(rest); classList.add(hover)
hoverStart(v, classes) == (classes \ RestClasses(v)) \cup HoverClasses(v)

\* hoverEnd: classList.remove(hover); classList.add(rest)
hoverEnd(v, classes) == (classes \ HoverClasses(v)) \cup RestClasses(v)

\* setTimeout(attachHoverEvents, 500); App.tsx attaches during mount instead.
HoverTimers(v) == IF v = "App" THEN {} ELSE {"hover500"}

\* The listeners registered while the effects of mount run.
MountListeners(v) ==
    {"mousemove", "resize", "wheel"}
       \cup (IF v = "App" THEN {"hover"} ELSE {})
       \cup (IF v = "part_001" THEN {"checkLayout"} ELSE {})

\* The listeners the effect cleanups remove: the three window listeners,
\* detachHover() in App.tsx, checkLayout in part_001.
CleanupListeners(v) ==
    {"mousemove", "resize", "wheel"}
       \cup (IF v = "App" THEN {"hover"} ELSE {})
       \cup (IF v = "part_001" THEN {"checkLayout"} ELSE {})

\* ------------------------------------------------------------ Reveal

\* The Reveal instances of the page that the model follows.
Instances == {1, 2}

\* Intersection ratios the layout engine may measure.
Ratios == {Lit(0, 1), Lit(1, 10), Lit(3, 10), Lit(3, 4)}

\* Measurements followed in one run, over all instances.
MaxSamples == 4

RECURSIVE TotalLen(_, _)
TotalLen(f, S) ==
    IF S = {} THEN 0
    ELSE LET i == CHOOSE j \in S : TRUE IN Len(f[i]) + TotalLen(f, S \ {i})

\* { threshold: 0.7 } / 0.6 / 0.2
Threshold(v) ==
    IF v = "App" THEN Lit(7, 10)
    ELSE IF v = "part_000" THEN Lit(6, 10) ELSE Lit(2, 10)

\* isIntersecting of an observer built without its threshold option.
IsIntersecting_NoThreshold(ratio, v) == ratio > 0

\* entry.isIntersecting of the entry an observer with one threshold
\* delivers: the measured ratio has reached the threshold.
IsIntersecting(ratio, v) == ratio >= Threshold(v)

\* ------------------------------------------------------------ Init

\* The state once the component has mounted and its effects have run:
\* listeners registered, timers started, animate() called once.
InitApp ==
    /\ variant \in Variants
    /\ mounted = TRUE
    /\ innerWidth \in InnerWidths
    /\ currentX = 0
    /\ targetX = 0
    /\ maxScroll = 0
    /\ skew = 0
    /\ mouse = [x |-> 0, y |-> 0]
    /\ cursor = [x |-> 0, y |-> 0]
    /\ containerTransform =
          IF Horizontal(variant, innerWidth)
          THEN [kind |-> "matrix", tx |-> 0,
                scale |-> ZoomLevel(0, innerWidth), skew |-> 0]
          ELSE [kind |-> "none", tx |-> 0, scale |-> 0, skew |-> 0]
    /\ cursorTransform = [set |-> variant # "App", x |-> 0, y |-> 0]
    /\ thumbTransform = [set |-> FALSE, x |-> 0]
    /\ flowTextTransform = [set |-> FALSE, x |-> 0]
    /\ timers = IntroTimers \cup LayoutTimers(variant) \cup HoverTimers(variant)
    /\ rafPending = 1
    /\ listeners = MountListeners(variant)
    /\ cursorClasses = CursorClassName(variant)
    /\ introLoaded = FALSE
    /\ maxScrollPeak = 0
    /\ nFrames = 1
    /\ thumbDivisor = {}
    /\ wheelLog = <<>>
    /\ last = [op |-> "mount", d |-> 0, sw |-> 0, currentX |-> 0,
               targetX |-> 0, maxScroll |-> 0, skew |-> 0,
               innerWidth |-> innerWidth, thumb |-> thumbTransform,
               mouse |-> mouse, cursor |-> cursor, cursorT |-> cursorTransform,
               containerT |-> containerTransform, flowT |-> flowTextTransform,
               classes |-> cursorClasses, op0 |-> "mount",
               classes0 |-> cursorClasses]
    /\ nEvents = 0

\* The copy button as rendered, no clipboard write under way.
InitCopy ==
    /\ label = "Email"
    /\ pendingWrites = 0
    /\ revertTimers = 0
    /\ copyLast = [op |-> "none", label |-> "Email", revertTimers |-> 0]

\* Every Reveal instance once mounted: hidden, its observer observing.
InitReveal ==
    /\ isVisible = [i \in Instances |-> FALSE]
    /\ observing = [i \in Instances |-> TRUE]
    /\ revealMounted = [i \in Instances |-> TRUE]
    /\ samples = [i \in Instances |-> <<>>]

\* lerp has not been applied on its own.
NoLerp == [applied |-> FALSE, factor |-> <<0, 1>>, result |-> 0,
           applied0 |-> FALSE, factor0 |-> <<0, 1>>, result0 |-> 0]

Init ==
    /\ InitApp
    /\ InitReveal
    /\ InitCopy
    /\ lerpIn = [start |-> 0, end |-> 0]
    /\ lerpOut = NoLerp

\* ------------------------------------------------------------ layout

\* The value calculateLayout leaves in state.current.maxScroll, measuring
\* scrollWidth sw at window.innerWidth w.
calculateLayout(v, w, sw, ms, attached) ==
    IF attached /\ Horizontal(v, w) THEN Sub(sw, w) ELSE ms

\* A timer measurement that also rewinds the scroll target.
TimerLayout_Reset(t, sw) ==
    /\ t \in timers
    /\ "intro100" \notin timers
    /\ t = "layout500" => timers \cap {"layout100", "hover500"} = {}
    /\ timers' = timers \ {t}
    /\ maxScroll' = calculateLayout(variant, innerWidth, sw, maxScroll, mounted)
    /\ targetX' = 0
    /\ last' = Pre("layout", 0, sw)
    /\ nEvents' = Min(nEvents + 1, MaxEvents)
    /\ UNCHANGED <<variant, mounted, innerWidth, currentX, skew,
                   mouse, cursor, containerTransform, cursorTransform,
                   thumbTransform, flowTextTransform, rafPending, wheelLog,
                   listeners, cursorClasses, nFrames, thumbDivisor>>
    /\ maxScrollPeak' = Max(maxScrollPeak, maxScroll')
    /\ UNCHANGED introLoaded
    /\ UNCHANGED <<revealVars, lerpVars, copyVars>>

\* setTimeout(calculateLayout, 100 / 500); timers run in the order of their
\* delays and, at equal delay, of their setTimeout calls.
TimerLayout(t, sw) ==
    /\ t \in timers
    /\ "intro100" \notin timers
    /\ t = "layout500" => timers \cap {"layout100", "hover500"} = {}
    /\ timers' = timers \ {t}
    /\ maxScroll' = calculateLayout(variant, innerWidth, sw, maxScroll, mounted)
    /\ last' = Pre("layout", 0, sw)
    /\ nEvents' = Min(nEvents + 1, MaxEvents)
    /\ UNCHANGED <<variant, mounted, innerWidth, currentX, targetX, skew,
                   mouse, cursor, containerTransform, cursorTransform,
                   thumbTransform, flowTextTransform, rafPending, wheelLog,
                   listeners, cursorClasses, nFrames, thumbDivisor>>
    /\ maxScrollPeak' = Max(maxScrollPeak, maxScroll')
    /\ UNCHANGED introLoaded
    /\ UNCHANGED <<revealVars, lerpVars, copyVars>>

\* A resize event: the window has width w, the listener runs calculateLayout.
Resize(w, sw) ==
    /\ "resize" \in listeners
    /\ innerWidth' = w
    /\ maxScroll' = calculateLayout(variant, w, sw, maxScroll, mounted)
    /\ last' = Pre("resize", 0, sw)
    /\ nEvents' = Min(nEvents + 1, MaxEvents)
    /\ UNCHANGED <<variant, mounted, currentX, targetX, skew, mouse, cursor,
                   containerTransform, cursorTransform, thumbTransform,
                   flowTextTransform, timers, rafPending, wheelLog,
                   listeners, cursorClasses, nFrames, thumbDivisor>>
    /\ maxScrollPeak' = Max(maxScrollPeak, maxScroll')
    /\ UNCHANGED introLoaded
    /\ UNCHANGED <<revealVars, lerpVars, copyVars>>

\* ------------------------------------------------------------ wheel

\* handleWheel with the upper clamp left out.
handleWheel_NoUpper(v, w, t, d, ms) ==
    IF Horizontal(v, w) THEN Max(0, Add(t, d)) ELSE t

\* handleWheel with the lower clamp left out.
handleWheel_NoLower(v, w, t, d, ms) ==
    IF Horizontal(v, w) THEN Min(Add(t, d), ms) ELSE t

\* handleWheel assigning the delta instead of adding it.
handleWheel_Overwrite(v, w, t, d, ms) ==
    IF Horizontal(v, w) THEN Max(0, Min(d, ms)) ELSE t

\* handleWheel without the early return of the vertical mode.
handleWheel_NoMode(v, w, t, d, ms) == Max(0, Min(Add(t, d), ms))

\* The value handleWheel leaves in state.current.targetX.
handleWheel(v, w, t, d, ms) ==
    IF Horizontal(v, w) THEN Max(0, Min(Add(t, d), ms)) ELSE t

\* Whether handleWheel reaches e.preventDefault(): part_001 returns before it
\* below the breakpoint.
preventDefault(v, w) == Horizontal(v, w)

\* A wheel event with deltaY = d.
Wheel(d) ==
    /\ "wheel" \in listeners
    /\ targetX' = handleWheel(variant, innerWidth, targetX, d, maxScroll)
    /\ wheelLog' = Append(wheelLog,
                          [d |-> d, before |-> targetX, after |-> targetX',
                           maxScroll |-> maxScroll, innerWidth |-> innerWidth,
                           defaultPrevented |->
                              preventDefault(variant, innerWidth)])
    /\ last' = Pre("wheel", d, 0)
    /\ nEvents' = Min(nEvents + 1, MaxEvents)
    /\ UNCHANGED <<variant, mounted, innerWidth, currentX, maxScroll, skew,
                   mouse, cursor, containerTransform, cursorTransform,
                   thumbTransform, flowTextTransform, timers, rafPending,
                   listeners, cursorClasses, nFrames, thumbDivisor>>
    /\ UNCHANGED <<introLoaded, maxScrollPeak>>
    /\ UNCHANGED <<revealVars, lerpVars, copyVars>>

\* ------------------------------------------------------------ pointer

\* A mousemove event at (p[1], p[2]): App.tsx writes the cursor element,
\* the other variants record the position for the next frame.
MouseMove(p) ==
    /\ "mousemove" \in listeners
    /\ IF variant = "App"
       THEN /\ cursorTransform' =
                  IF mounted THEN [set |-> TRUE, x |-> p[1], y |-> p[2]]
                  ELSE cursorTransform
            /\ UNCHANGED mouse
       ELSE /\ mouse' = [x |-> p[1], y |-> p[2]]
            /\ UNCHANGED cursorTransform
    /\ last' = Pre("mousemove", 0, 0)
    /\ nEvents' = Min(nEvents + 1, MaxEvents)
    /\ UNCHANGED <<variant, mounted, innerWidth, currentX, targetX, maxScroll,
                   skew, cursor, containerTransform, thumbTransform,
                   flowTextTransform, timers, rafPending, wheelLog,
                   listeners, cursorClasses, nFrames, thumbDivisor>>
    /\ UNCHANGED <<introLoaded, maxScrollPeak>>
    /\ UNCHANGED <<revealVars, lerpVars, copyVars>>

\* A mouseenter (enter = TRUE) or mouseleave on a hover target: hoverStart /
\* hoverEnd switch the classes of the cursor element, if it is attached.
Hover(enter) ==
    /\ "hover" \in listeners
    /\ cursorClasses' =
          IF ~mounted THEN cursorClasses
          ELSE IF enter THEN hoverStart(variant, cursorClasses)
          ELSE hoverEnd(variant, cursorClasses)
    /\ last' = Pre(IF enter THEN "mouseenter" ELSE "mouseleave", 0, 0)
    /\ nEvents' = Min(nEvents + 1, MaxEvents)
    /\ UNCHANGED <<variant, mounted, innerWidth, currentX, targetX, maxScroll,
                   skew, mouse, cursor, containerTransform, cursorTransform,
                   thumbTransform, flowTextTransform, timers, rafPending,
                   wheelLog, listeners, nFrames, thumbDivisor>>
    /\ UNCHANGED <<introLoaded, maxScrollPeak>>
    /\ UNCHANGED <<revealVars, lerpVars, copyVars>>

\* setTimeout(attachHoverEvents, 500): the hover targets in the document get
\* their listeners; the function that would remove them is dropped.
TimerHover ==
    /\ "hover500" \in timers
    /\ timers \cap {"intro100", "layout100"} = {}
    /\ timers' = timers \ {"hover500"}
    /\ listeners' = IF mounted THEN listeners \cup {"hover"} ELSE listeners
    /\ last' = Pre("hovertimer", 0, 0)
    /\ nEvents' = Min(nEvents + 1, MaxEvents)
    /\ UNCHANGED <<variant, mounted, innerWidth, currentX, targetX, maxScroll,
                   skew, mouse, cursor, containerTransform, cursorTransform,
                   thumbTransform, flowTextTransform, rafPending, wheelLog,
                   cursorClasses, nFrames, thumbDivisor>>
    /\ UNCHANGED <<introLoaded, maxScrollPeak>>
    /\ UNCHANGED <<revealVars, lerpVars, copyVars>>

\* The intro timer: setIntroLoaded(true), which React drops once the
\* component has unmounted.  The callback shares no state with the
\* animation, and the history (last, nEvents) does not follow it.
TimerIntro ==
    /\ "intro100" \in timers
    /\ timers' = timers \ {"intro100"}
    /\ introLoaded' = IF mounted THEN TRUE ELSE introLoaded
    /\ UNCHANGED <<variant, mounted, innerWidth, currentX, targetX, maxScroll,
                   skew, mouse, cursor, containerTransform, cursorTransform,
                   thumbTransform, flowTextTransform, rafPending, listeners,
                   cursorClasses, nFrames, thumbDivisor, maxScrollPeak,
                   wheelLog, last, nEvents>>
    /\ UNCHANGED <<revealVars, lerpVars, copyVars>>

\* ------------------------------------------------------------ animate

\* The scroll easing with the difference taken the wrong way round.
EaseScroll_SignSlip(v, w, c, t) ==
    IF ~Horizontal(v, w) THEN c
    ELSE Add(c, MulQ(Sub(c, t), ScrollFactor(v)[1], ScrollFactor(v)[2]))

\* The scroll easing done only while the container is attached.
EaseScroll_NeedsContainer(v, w, c, t) ==
    IF ~Horizontal(v, w) \/ ~mounted THEN c
    ELSE IF v = "App"
         THEN Add(c, MulQ(Sub(t, c), ScrollFactor(v)[1], ScrollFactor(v)[2]))
         ELSE lerp(c, t, ScrollFactor(v))

\* The scroll easing run in every mode.
EaseScroll_AnyMode(v, w, c, t) ==
    IF v = "App"
    THEN Add(c, MulQ(Sub(t, c), ScrollFactor(v)[1], ScrollFactor(v)[2]))
    ELSE lerp(c, t, ScrollFactor(v))

\* currentX after the scroll easing of one frame.
EaseScroll(v, w, c, t) ==
    IF ~Horizontal(v, w) THEN c
    ELSE IF v = "App"
         THEN Add(c, MulQ(Sub(t, c), ScrollFactor(v)[1], ScrollFactor(v)[2]))
         ELSE lerp(c, t, ScrollFactor(v))

\* The skew taken from the velocity before the frame's scroll easing.
EaseSkew_StaleVelocity(v, w, s, c1, t) ==
    IF HasSkew(v) /\ Horizontal(v, w)
    THEN LET velocity   == Sub(t, currentX)
             targetSkew == MulQ(velocity, 1, 1000)
         IN  lerp(s, targetSkew, <<1, 10>>)
    ELSE s

\* The skew following the velocity itself, without the factor 0.001.
EaseSkew_NoGain(v, w, s, c1, t) ==
    IF HasSkew(v) /\ Horizontal(v, w)
    THEN lerp(s, Sub(t, c1), <<1, 10>>)
    ELSE s

\* skew after one frame whose eased position is c1.
EaseSkew(v, w, s, c1, t) ==
    IF HasSkew(v) /\ Horizontal(v, w)
    THEN LET velocity   == Sub(t, c1)
             targetSkew == MulQ(velocity, 1, 1000)
         IN  lerp(s, targetSkew, <<1, 10>>)
    ELSE s

\* A guard that only excludes maxScroll = 0.
ThumbGuard_NonZero(v, w, ms, attached) ==
    attached /\ Horizontal(v, w) /\ ms # 0

\* A frame that asks for two frames.
Reschedule_Twice(pending) == (pending - 1) + 2

\* The requests outstanding after a frame: the request that called animate
\* is used up, requestAnimationFrame(animate) makes one.
Reschedule(pending) == (pending - 1) + 1

\* cancelAnimationFrame(animationFrameId): the request made last is dropped.
cancelAnimationFrame(pending) == Max(pending - 1, 0)

\* The frame's write to the progress thumb happens: the thumb is attached,
\* the page is in horizontal mode and maxScroll > 0.
ThumbGuard(v, w, ms, attached) == attached /\ Horizontal(v, w) /\ ms > 0

\* One animation frame: animate(), which requests the next frame.  State is
\* always advanced; an element is written only while its ref is attached.
Tick(rect) ==
    /\ rafPending > 0
    /\ currentX' = EaseScroll(variant, innerWidth, currentX, targetX)
    /\ skew' = EaseSkew(variant, innerWidth, skew, currentX', targetX)
    /\ containerTransform' =
          IF ~mounted THEN containerTransform
          ELSE IF Horizontal(variant, innerWidth)
          THEN [kind |-> "matrix", tx |-> 0 - currentX',
                scale |-> ZoomLevel(currentX', innerWidth), skew |-> skew']
          ELSE [kind |-> "none", tx |-> 0, scale |-> 0, skew |-> 0]
    /\ IF variant = "App"
       THEN UNCHANGED <<cursor, cursorTransform>>
       ELSE /\ cursor' = [x |-> lerp(cursor.x, mouse.x, CursorFactor(variant)),
                          y |-> lerp(cursor.y, mouse.y, CursorFactor(variant))]
            /\ cursorTransform' =
                  IF mounted THEN [set |-> TRUE, x |-> cursor'.x, y |-> cursor'.y]
                  ELSE cursorTransform
    /\ flowTextTransform' =
          IF mounted /\ rect.left + rect.width > 0 /\ rect.left < innerWidth
          THEN [set |-> TRUE, x |-> FlowOffset(variant, innerWidth, rect)]
          ELSE flowTextTransform
    /\ IF ThumbGuard(variant, innerWidth, maxScroll, mounted)
       THEN /\ thumbTransform' = [set |-> TRUE, x |-> ThumbPos(currentX', maxScroll)]
            /\ thumbDivisor' = {maxScroll}
       ELSE /\ thumbTransform' = thumbTransform
            /\ thumbDivisor' = {}
    /\ rafPending' = Reschedule(rafPending)
    /\ nFrames' = Min(nFrames + 1, MaxFrames)
    /\ last' = Pre("tick", 0, 0)
    /\ nEvents' = Min(nEvents + 1, MaxEvents)
    /\ UNCHANGED <<variant, mounted, innerWidth, targetX, maxScroll, mouse,
                   timers, wheelLog, listeners, cursorClasses>>
    /\ UNCHANGED <<introLoaded, maxScrollPeak>>
    /\ UNCHANGED <<revealVars, lerpVars, copyVars>>

\* ------------------------------------------------------------ unmount

\* A cleanup that removes the listeners but leaves the frame request.
Unmount_NoCancel ==
    /\ mounted
    /\ mounted' = FALSE
    /\ listeners' = listeners \ CleanupListeners(variant)
    /\ last' = Pre("unmount", 0, 0)
    /\ nEvents' = Min(nEvents + 1, MaxEvents)
    /\ UNCHANGED <<variant, innerWidth, currentX, targetX, maxScroll, skew,
                   mouse, cursor, containerTransform, cursorTransform,
                   thumbTransform, flowTextTransform, timers, wheelLog,
                   rafPending, cursorClasses, nFrames, thumbDivisor>>
    /\ UNCHANGED <<introLoaded, maxScrollPeak>>
    /\ UNCHANGED <<revealVars, lerpVars, copyVars>>

\* A cleanup that also clears the timers of mount.
Unmount_ClearsTimers ==
    /\ mounted
    /\ mounted' = FALSE
    /\ listeners' = listeners \ CleanupListeners(variant)
    /\ rafPending' = cancelAnimationFrame(rafPending)
    /\ timers' = {}
    /\ last' = Pre("unmount", 0, 0)
    /\ nEvents' = Min(nEvents + 1, MaxEvents)
    /\ UNCHANGED <<variant, innerWidth, currentX, targetX, maxScroll, skew,
                   mouse, cursor, containerTransform, cursorTransform,
                   thumbTransform, flowTextTransform, wheelLog,
                   cursorClasses, nFrames, thumbDivisor>>
    /\ UNCHANGED <<introLoaded, maxScrollPeak>>
    /\ UNCHANGED <<revealVars, lerpVars, copyVars>>

\* The cleanups of the effects, run as the component unmounts: the window
\* listeners are removed (and, in App.tsx, the hover listeners), the
\* outstanding frame request is cancelled, the refs are detached.
Unmount ==
    /\ mounted
    /\ mounted' = FALSE
    /\ listeners' = listeners \ CleanupListeners(variant)
    /\ rafPending' = cancelAnimationFrame(rafPending)
    /\ last' = Pre("unmount", 0, 0)
    /\ nEvents' = Min(nEvents + 1, MaxEvents)
    /\ UNCHANGED <<variant, innerWidth, currentX, targetX, maxScroll, skew,
                   mouse, cursor, containerTransform, cursorTransform,
                   thumbTransform, flowTextTransform, timers, wheelLog,
                   cursorClasses, nFrames, thumbDivisor>>
    /\ UNCHANGED <<introLoaded, maxScrollPeak>>
    /\ UNCHANGED <<revealVars, lerpVars, copyVars>>

\* Unmount in two steps, as React runs it when it defers the cleanups of
\* useEffect: first the commit, which detaches the refs and runs the cleanup
\* of the layout effect ...
Detach ==
    /\ mounted
    /\ mounted' = FALSE
    /\ listeners' = listeners \ (IF variant = "part_001" THEN {"checkLayout"} ELSE {})
    /\ last' = Pre("detach", 0, 0)
    /\ nEvents' = Min(nEvents + 1, MaxEvents)
    /\ UNCHANGED <<variant, innerWidth, currentX, targetX, maxScroll, skew,
                   mouse, cursor, containerTransform, cursorTransform,
                   thumbTransform, flowTextTransform, timers, wheelLog,
                   rafPending, cursorClasses, nFrames, thumbDivisor>>
    /\ UNCHANGED <<introLoaded, maxScrollPeak>>
    /\ UNCHANGED <<revealVars, lerpVars, copyVars>>

\* ... and later the cleanup of useEffect; events and frames can come in
\* between.
Cleanup ==
    /\ ~mounted
    /\ "wheel" \in listeners
    /\ listeners' = listeners \ CleanupListeners(variant)
    /\ rafPending' = cancelAnimationFrame(rafPending)
    /\ last' = Pre("cleanup", 0, 0)
    /\ nEvents' = Min(nEvents + 1, MaxEvents)
    /\ UNCHANGED <<variant, mounted, innerWidth, currentX, targetX, maxScroll,
                   skew, mouse, cursor, containerTransform, cursorTransform,
                   thumbTransform, flowTextTransform, timers, wheelLog,
                   cursorClasses, nFrames, thumbDivisor>>
    /\ UNCHANGED <<introLoaded, maxScrollPeak>>
    /\ UNCHANGED <<revealVars, lerpVars, copyVars>>

\* ------------------------------------------------------------ Reveal

\* A callback that follows the entry both ways and never disconnects.
RevealCallback_Toggle(ratio, v, vis) ==
    [isVisible |-> IsIntersecting(ratio, v), observing |-> TRUE]

\* A callback that reveals but leaves the observer connected.
RevealCallback_NoDisconnect(ratio, v, vis) ==
    IF IsIntersecting(ratio, v)
    THEN [isVisible |-> TRUE, observing |-> TRUE]
    ELSE [isVisible |-> vis, observing |-> TRUE]

\* The observer callback on one entry: the new (isVisible, observing).
RevealCallback(ratio, v, vis) ==
    IF IsIntersecting(ratio, v)
    THEN [isVisible |-> TRUE, observing |-> FALSE]
    ELSE [isVisible |-> vis, observing |-> TRUE]

\* The layout engine measures intersection ratio r of instance i's element;
\* the callback runs only while the observer still observes it.
Sample(i, r) ==
    /\ TotalLen(samples, Instances) < MaxSamples
    /\ IF observing[i]
       THEN LET res == RevealCallback(r, variant, isVisible[i])
            IN  /\ isVisible' = [isVisible EXCEPT ![i] = res.isVisible]
                /\ observing' = [observing EXCEPT ![i] = res.observing]
       ELSE UNCHANGED <<isVisible, observing>>
    /\ samples' = [samples EXCEPT ![i] =
                      Append(@, [ratio |-> r, delivered |-> observing[i],
                                 visible |-> isVisible'[i]])]
    /\ UNCHANGED revealMounted
    /\ UNCHANGED <<appVars, lerpVars, copyVars>>

\* The cleanup of Reveal's effect: observer.disconnect()
RevealUnmount(i) ==
    /\ revealMounted[i]
    /\ revealMounted' = [revealMounted EXCEPT ![i] = FALSE]
    /\ observing' = [observing EXCEPT ![i] = FALSE]
    /\ UNCHANGED <<isVisible, samples>>
    /\ UNCHANGED <<appVars, lerpVars, copyVars>>

\* ------------------------------------------------------------ clipboard

\* The state of the copy button before a clipboard step.
PreCopy(op) == [op |-> op, label |-> label, revertTimers |-> revertTimers]

\* copyEmail: a click starts navigator.clipboard.writeText(...)
Click ==
    /\ pendingWrites < MaxClicks
    /\ pendingWrites' = pendingWrites + 1
    /\ copyLast' = PreCopy("click")
    /\ UNCHANGED <<label, revertTimers>>
    /\ UNCHANGED <<appVars, revealVars, lerpVars>>

\* The write succeeded: the .then callback shows "Copied" and starts the
\* 2000 ms timer.
WriteFulfilled ==
    /\ pendingWrites > 0
    /\ revertTimers < MaxClicks
    /\ pendingWrites' = pendingWrites - 1
    /\ label' = "Copied"
    /\ revertTimers' = revertTimers + 1
    /\ copyLast' = PreCopy("fulfilled")
    /\ UNCHANGED <<appVars, revealVars, lerpVars>>

\* A rejection handled like a success.
WriteRejected_AsFulfilled ==
    /\ pendingWrites > 0
    /\ revertTimers < MaxClicks
    /\ pendingWrites' = pendingWrites - 1
    /\ label' = "Copied"
    /\ revertTimers' = revertTimers + 1
    /\ copyLast' = PreCopy("rejected")
    /\ UNCHANGED <<appVars, revealVars, lerpVars>>

\* The write failed: the promise has no rejection handler, nothing runs.
WriteRejected ==
    /\ pendingWrites > 0
    /\ pendingWrites' = pendingWrites - 1
    /\ copyLast' = PreCopy("rejected")
    /\ UNCHANGED <<label, revertTimers>>
    /\ UNCHANGED <<appVars, revealVars, lerpVars>>

\* The 2000 ms timer of an earlier success: the label goes back to "Email".
RevertLabel ==
    /\ revertTimers > 0
    /\ revertTimers' = revertTimers - 1
    /\ label' = "Email"
    /\ copyLast' = PreCopy("revert")
    /\ UNCHANGED pendingWrites
    /\ UNCHANGED <<appVars, revealVars, lerpVars>>

\* ------------------------------------------------------------ specifications

\* The scroll widths whose content is at least as wide as every viewport.
WideScrollWidths == {sw \in ScrollWidths : \A w \in InnerWidths : sw >= w}

\* Any event of the page, the layout engine measuring scroll widths in SW.
Budget == nEvents < MaxEvents

NextWith(SW) ==
    \/ \E t \in {"layout100", "layout500"}, sw \in SW : Budget /\ TimerLayout(t, sw)
    \/ \E w \in InnerWidths, sw \in SW : Budget /\ Resize(w, sw)
    \/ \E d \in Deltas : Budget /\ Wheel(d)
    \/ \E p \in Points : Budget /\ MouseMove(p)
    \/ \E rect \in SlideRects : Budget /\ Tick(rect)
    \/ \E enter \in BOOLEAN : Budget /\ Hover(enter)
    \/ Budget /\ TimerHover
    \/ TimerIntro
    \/ Budget /\ Unmount

Next == NextWith(ScrollWidths)

Spec == Init /\ [][Next]_vars

\* The same page when its content is never narrower than the viewport.
NextWide == NextWith(WideScrollWidths)

SpecWide == Init /\ [][NextWide]_vars

\* A page that receives a few input events and is then left alone: frames
\* run with targetX held fixed until nothing changes any more.
InputPhase == last.op # "tick" /\ nEvents < MaxSettleInputs

NextSettle ==
    \/ \E t \in {"layout100", "layout500"}, sw \in ScrollWidths :
          InputPhase /\ TimerLayout(t, sw)
    \/ InputPhase /\ TimerHover
    \/ InputPhase /\ TimerIntro
    \/ \E d \in Deltas : InputPhase /\ Wheel(d)
    \/ \E rect \in SlideRects : rect.left > innerWidth /\ Tick(rect)

SpecSettle == Init /\ [][NextSettle]_vars

\* A long page: a wheel event can carry the target far, and the content
\* can be re-measured much shorter afterwards.
LongDeltas == {Px(5000), Px(100)}

LongScrollWidths == {Px(6200), Px(1700)}

NextLong ==
    \/ \E t \in {"layout100", "layout500"}, sw \in LongScrollWidths :
          Budget /\ TimerLayout(t, sw)
    \/ \E w \in InnerWidths, sw \in LongScrollWidths : Budget /\ Resize(w, sw)
    \/ \E d \in LongDeltas : Budget /\ Wheel(d)
    \/ \E rect \in SlideRects : Budget /\ Tick(rect)
    \/ Budget /\ TimerHover
    \/ TimerIntro

SpecLong == Init /\ [][NextLong]_vars

\* The pointer jumps 500 px away from the resting cursor right after mount
\* and then stays where it is while frames run.
CursorPoints == {<<Px(500), 0>>, <<0, Px(500)>>}

NextCursor ==
    \/ \E p \in CursorPoints : last.op = "mount" /\ MouseMove(p)
    \/ \E rect \in SlideRects : last.op # "mount" /\ Tick(rect)

SpecCursor == Init /\ [][NextCursor]_vars

\* The copy button on its own: clicks, the outcome of each clipboard write,
\* the label timers.
NextCopy ==
    \/ Click
    \/ WriteFulfilled
    \/ WriteRejected
    \/ RevertLabel

SpecCopy == Init /\ [][NextCopy]_vars

\* Unmounting: the page is measured at a fixed width, gets a few events and
\* is unmounted, either in one step or with the cleanups of useEffect
\* deferred, so that events and frames come in between.
TeardownDeltas == {Px(100)}

\* Frames followed in a run that unmounts, the one of mount included.
MaxTeardownFrames == 3

TeardownScrollWidths == {Px(1700)}

TeardownPoints == {<<Px(500), Px(300)>>}

NextTeardown ==
    \/ TimerIntro
    \/ \E t \in {"layout100", "layout500"}, sw \in TeardownScrollWidths :
          Budget /\ TimerLayout(t, sw)
    \/ Budget /\ TimerHover
    \/ \E d \in TeardownDeltas : Budget /\ Wheel(d)
    \/ \E q \in TeardownPoints : Budget /\ MouseMove(q)
    \/ \E rect \in SlideRects :
          nFrames < MaxTeardownFrames /\ rect.left > innerWidth /\ Tick(rect)
    \/ Budget /\ Detach
    \/ Cleanup
    \/ Budget /\ Unmount

SpecTeardown == Init /\ [][NextTeardown]_vars

\* The timers of the component across an unmount.  The copy button is
\* clicked while no write or label timer is outstanding.  The timers are
\* left to the browser, which runs every timer that is due.
NextTimers ==
    \/ TimerIntro
    \/ \E t \in {"layout100", "layout500"}, sw \in TeardownScrollWidths :
          TimerLayout(t, sw)
    \/ TimerHover
    \/ \E rect \in SlideRects : Budget /\ rect.left > innerWidth /\ Tick(rect)
    \/ Budget /\ Detach
    \/ Cleanup
    \/ Budget /\ Unmount
    \/ mounted /\ pendingWrites + revertTimers = 0 /\ Click
    \/ WriteFulfilled
    \/ RevertLabel

TimerFairness ==
    /\ WF_vars(TimerIntro)
    /\ WF_vars(\E t \in {"layout100", "layout500"}, sw \in TeardownScrollWidths :
                  TimerLayout(t, sw))
    /\ WF_vars(TimerHover)
    /\ WF_vars(RevertLabel)

SpecTimers == Init /\ [][NextTimers]_vars /\ TimerFairness

\* A page that changes between horizontal and vertical mode: it is resized
\* any number of times, and gets a few wheel events and frames.
MaxModeWheels == 2

MaxModeFrames == 3

ModeScrollWidths == {Px(1700)}

NextMode ==
    \/ \E w \in InnerWidths, sw \in ModeScrollWidths : Resize(w, sw)
    \/ \E d \in Deltas : Len(wheelLog) < MaxModeWheels /\ Wheel(d)
    \/ \E rect \in SlideRects :
          nFrames < MaxModeFrames /\ rect.left > innerWidth /\ Tick(rect)

SpecMode == Init /\ [][NextMode]_vars

NextReveal ==
    \/ \E i \in Instances, r \in Ratios : Sample(i, r)
    \/ \E i \in Instances : RevealUnmount(i)

SpecReveal == Init /\ [][NextReveal]_vars

\* lerp on its own: arguments and factors it may be called with.
LerpArgs == {0, 1, 77, Px(1), Px(100), Px(500), Px(0 - 50), Px(1700)}

LerpFactors == {<<0, 1>>, <<1, 20>>, <<1, 2>>, <<1, 1>>}

InitLerp ==
    /\ InitApp
    /\ variant = "part_000"
    /\ innerWidth = Px(1200)
    /\ InitReveal
    /\ InitCopy
    /\ lerpIn \in [start : LerpArgs, end : LerpArgs]
    /\ lerpOut = NoLerp

\* One call lerp(start, end, factor); the call before it is kept.
ApplyLerp(f) ==
    /\ lerpOut' = [applied |-> TRUE, factor |-> f,
                   result |-> lerp(lerpIn.start, lerpIn.end, f),
                   applied0 |-> lerpOut.applied, factor0 |-> lerpOut.factor,
                   result0 |-> lerpOut.result]
    /\ UNCHANGED <<lerpIn, appVars, revealVars, copyVars>>

NextLerp == \E f \in LerpFactors : ApplyLerp(f)

SpecLerp == InitLerp /\ [][NextLerp]_vars

\* ------------------------------------------------------------ claims

\* Math.max(0, Math.min(x, hi)), the clamp of the wheel handler
Clamp(x, hi) == Max(0, Min(x, hi))

\* The wheel events handled in horizontal mode.
HorizontalAt(i) == Horizontal(variant, wheelLog[i].innerWidth)

\* C1 (as stated): in every reachable state 0 <= targetX <= maxScroll.
C1_TargetWithinBounds == 0 <= targetX /\ targetX <= maxScroll

\* C1 (amended): targetX is never negative, and right after a wheel event
\* handled in horizontal mode it is at most max(0, maxScroll); a layout
\* measurement that lowers maxScroll leaves targetX above it.
C1_TargetClampedByWheel ==
    /\ targetX >= 0
    /\ (last.op = "wheel" /\ Horizontal(variant, innerWidth))
          => targetX <= Max(0, maxScroll)

\* C1 witness: a wheel event was cut off at a positive maxScroll.
C1_Witness ==
    /\ last.op = "wheel"
    /\ maxScroll > 0
    /\ last.targetX + last.d > maxScroll
    /\ targetX = maxScroll

\* C2: a wheel event with delta d in horizontal mode sets targetX to
\* max(0, min(targetX + d, maxScroll)) with maxScroll as it is at that moment;
\* from 0 at maxScroll 500 the deltas 100, 600, -50 give 100, 500, 450.
C2_WheelSetsClampedTarget ==
    /\ \A i \in 1 .. Len(wheelLog) :
          HorizontalAt(i) =>
             wheelLog[i].after =
                Max(0, Min(wheelLog[i].before + wheelLog[i].d, wheelLog[i].maxScroll))
    /\ (last.op = "wheel" /\ Horizontal(variant, innerWidth))
          => targetX = Max(0, Min(last.targetX + last.d, maxScroll))
    /\ ( /\ Len(wheelLog) = 3
         /\ \A i \in 1 .. 3 : HorizontalAt(i) /\ wheelLog[i].maxScroll = Px(500)
         /\ wheelLog[1].before = 0
         /\ wheelLog[1].d = Px(100)
         /\ wheelLog[2].d = Px(600)
         /\ wheelLog[3].d = Px(0 - 50) )
          => /\ wheelLog[1].after = Px(100)
             /\ wheelLog[2].after = Px(500)
             /\ wheelLog[3].after = Px(450)
             /\ targetX = Px(450)

\* C2 witness: the three events of the example have been handled.
C2_Witness ==
    /\ Len(wheelLog) = 3
    /\ \A i \in 1 .. 3 : HorizontalAt(i) /\ wheelLog[i].maxScroll = Px(500)
    /\ wheelLog[1].before = 0
    /\ wheelLog[1].d = Px(100) /\ wheelLog[1].after = Px(100)
    /\ wheelLog[2].d = Px(600) /\ wheelLog[2].after = Px(500)
    /\ wheelLog[3].d = Px(0 - 50) /\ wheelLog[3].after = Px(450)

\* The sum of the deltas of the wheel events i .. j.
RECURSIVE SumD(_, _)
SumD(i, j) == IF j < i THEN 0 ELSE wheelLog[j].d + SumD(i, j - 1)

\* Wheel events i .. j were all handled in horizontal mode at one maxScroll.
SameBound(i, j) ==
    \A k \in i .. j :
       HorizontalAt(k) /\ wheelLog[k].maxScroll = wheelLog[i].maxScroll

\* C3 (as stated): after wheel events whose deltas sum to delta, with
\* maxScroll unchanged, targetX = clamp(previous + delta, 0, maxScroll).
C3_WheelSumClamped ==
    \A i \in 1 .. Len(wheelLog) : \A j \in i .. Len(wheelLog) :
       SameBound(i, j) =>
          wheelLog[j].after =
             Clamp(wheelLog[i].before + SumD(i, j), wheelLog[i].maxScroll)

\* C3 (amended): the same, provided no partial sum previous + d1 + .. + dk
\* leaves [0, maxScroll]; otherwise the clamp of each event applies in turn.
C3_WheelSumClampedIfInside ==
    \A i \in 1 .. Len(wheelLog) : \A j \in i .. Len(wheelLog) :
       ( /\ SameBound(i, j)
         /\ \A k \in i .. j :
               /\ 0 <= wheelLog[i].before + SumD(i, k)
               /\ wheelLog[i].before + SumD(i, k) <= wheelLog[i].maxScroll
               /\ Representable(wheelLog[i].before + SumD(i, k)) )
          => wheelLog[j].after =
                Clamp(wheelLog[i].before + SumD(i, j), wheelLog[i].maxScroll)

\* C3 witness: two events were summed without either being cut off.
C3_Witness ==
    /\ Len(wheelLog) >= 2
    /\ SameBound(1, 2)
    /\ wheelLog[1].d # 0 /\ wheelLog[2].d # 0
    /\ wheelLog[1].after = wheelLog[1].before + wheelLog[1].d
    /\ wheelLog[2].after = wheelLog[1].before + SumD(1, 2)
    /\ wheelLog[2].after > 0
    /\ wheelLog[2].after < wheelLog[2].maxScroll

\* The last operation measured the layout (the container is attached and,
\* in part_001, the window is at least 1024 wide).
Measured ==
    /\ last.op \in {"layout", "resize"}
    /\ mounted
    /\ Horizontal(variant, innerWidth)

\* C4: every layout measurement sets maxScroll to
\* max(0, contentWidth - viewportWidth), so maxScroll is never negative.
C4_MaxScrollClamped ==
    /\ maxScroll >= 0
    /\ Measured => maxScroll = Max(0, last.sw - innerWidth)

\* C5: a layout measurement, fired by a timer or by a resize event, leaves
\* targetX and currentX (and skew) as they were.
C5_LayoutKeepsPosition ==
    last.op \in {"layout", "resize"} =>
       /\ targetX = last.targetX
       /\ currentX = last.currentX
       /\ skew = last.skew
       /\ thumbTransform = last.thumb

\* C5 witness: a measurement changed maxScroll while the page was scrolled.
C5_Witness ==
    /\ last.op \in {"layout", "resize"}
    /\ maxScroll # last.maxScroll
    /\ targetX > 0
    /\ currentX > 0
    /\ currentX # targetX

\* Sample k of instance i reached the callback with a ratio at or above
\* the threshold.
Hit(i, k) ==
    /\ samples[i][k].delivered
    /\ samples[i][k].ratio >= Threshold(variant)

\* C6: isVisible starts false and, once true, is never set back to false,
\* whatever intersection ratios (0.0 included) are measured afterwards.
C6_RevealMonotonic ==
    /\ \A i \in Instances : samples[i] = <<>> => ~isVisible[i]
    /\ [][\A i \in Instances : isVisible[i] => isVisible'[i]]_vars

\* C6 witness: a ratio of 0.0 was measured after the instance had revealed.
C6_Witness ==
    \E i \in Instances :
       /\ isVisible[i]
       /\ Len(samples[i]) >= 2
       /\ samples[i][Len(samples[i])].ratio = 0
       /\ \E k \in 1 .. Len(samples[i]) - 1 : samples[i][k].visible

\* C7: isVisible becomes true at exactly the first notification whose ratio
\* meets or exceeds the threshold, and at none before it; for ratios
\* 0.1, 0.3, 0.75 against threshold 0.6 that is the third, and a later 0.0
\* leaves it true.
C7_RevealAtFirstHit ==
    \A i \in Instances :
       /\ \A k \in 1 .. Len(samples[i]) :
             samples[i][k].visible <=> \E j \in 1 .. k : Hit(i, j)
       /\ isVisible[i] <=> \E j \in 1 .. Len(samples[i]) : Hit(i, j)
       /\ ( /\ variant = "part_000"
            /\ Len(samples[i]) >= 3
            /\ \A k \in 1 .. 3 : samples[i][k].delivered
            /\ samples[i][1].ratio = Lit(1, 10)
            /\ samples[i][2].ratio = Lit(3, 10)
            /\ samples[i][3].ratio = Lit(3, 4) )
             => /\ ~samples[i][1].visible
                /\ ~samples[i][2].visible
                /\ samples[i][3].visible
                /\ isVisible[i]

\* C7 witness: the example, followed by a measurement of 0.0.
C7_Witness ==
    /\ variant = "part_000"
    /\ Len(samples[1]) = 4
    /\ samples[1][1].ratio = Lit(1, 10) /\ ~samples[1][1].visible
    /\ samples[1][2].ratio = Lit(3, 10) /\ ~samples[1][2].visible
    /\ samples[1][3].ratio = Lit(3, 4) /\ samples[1][3].visible
    /\ samples[1][4].ratio = 0
    /\ isVisible[1]

\* C8: the observer is disconnected in the step that reveals and in the
\* unmount cleanup, and never observes again: a revealed or unmounted
\* instance is not observing.
C8_ObserverStopped ==
    /\ [](\A i \in Instances :
             (isVisible[i] \/ ~revealMounted[i]) => ~observing[i])
    /\ [][\A i \in Instances : ~observing[i] => ~observing'[i]]_vars

\* C8 witness: one instance revealed, another unmounted without revealing,
\* and measurements went on afterwards.
C8_Witness ==
    \E i, j \in Instances :
       /\ isVisible[i] /\ ~observing[i] /\ revealMounted[i]
       /\ ~revealMounted[j] /\ ~isVisible[j] /\ ~observing[j]
       /\ samples[j] # <<>>
       /\ ~samples[j][Len(samples[j])].delivered

\* The distance left to the target before and after the last frame.
DistBefore == Abs(last.targetX - last.currentX)

DistAfter == Abs(targetX - currentX)

\* currentX has not passed targetX in the last frame.
NoOvershoot ==
    /\ last.targetX > last.currentX => targetX >= currentX
    /\ last.targetX < last.currentX => targetX <= currentX

\* The last operation was a frame that ran the scroll easing off target.
EasedOffTarget ==
    /\ last.op = "tick"
    /\ Horizontal(variant, innerWidth)
    /\ last.targetX = targetX
    /\ last.currentX # last.targetX

\* The increment (targetX - currentX) * factor of the last frame.
LastStep ==
    MulQ(Sub(last.targetX, last.currentX),
         ScrollFactor(variant)[1], ScrollFactor(variant)[2])

\* C9 (as stated): with targetX fixed and currentX # targetX, every frame
\* strictly decreases |targetX - currentX| and never overshoots.
C9_TickStrictlyApproaches ==
    EasedOffTarget => DistAfter < DistBefore /\ NoOvershoot

\* C9 (amended): no frame increases |targetX - currentX| or overshoots; the
\* distance strictly decreases while the increment is at least the spacing
\* of numbers at currentX, and once the increment rounds away currentX
\* stays where it is, short of targetX.
C9_TickNeverRecedes ==
    EasedOffTarget =>
       /\ DistAfter <= DistBefore
       /\ NoOvershoot
       /\ Abs(LastStep) >= Ulp(Abs(last.currentX)) => DistAfter < DistBefore
       /\ DistAfter = DistBefore => currentX = last.currentX

\* C9 witness: a frame moved currentX towards a target it has not reached.
C9_Witness ==
    /\ EasedOffTarget
    /\ DistAfter < DistBefore
    /\ currentX # targetX
    /\ nEvents >= MaxSettleInputs

\* C10 (as stated): lerp(a, b, 0) = a and lerp(a, b, 1) = b for all a, b.
C10_LerpEndpoints ==
    lerpOut.applied =>
       /\ lerpOut.factor = <<0, 1>> => lerpOut.result = lerpIn.start
       /\ lerpOut.factor = <<1, 1>> => lerpOut.result = lerpIn.end

\* C10 (amended): lerp(a, b, 0) = a; lerp(a, b, 1) = b when the difference
\* b - a is computed without rounding, and a + round(b - a) otherwise.
C10_LerpEndpointsExact ==
    lerpOut.applied =>
       /\ lerpOut.factor = <<0, 1>> => lerpOut.result = lerpIn.start
       /\ lerpOut.factor = <<1, 1>> =>
             /\ lerpOut.result = Add(lerpIn.start, Sub(lerpIn.end, lerpIn.start))
             /\ Sub(lerpIn.end, lerpIn.start) = lerpIn.end - lerpIn.start
                   => lerpOut.result = lerpIn.end

\* C10 witness: lerp(a, b, 1) returned b for different a and b.
C10_Witness ==
    /\ lerpOut.applied
    /\ lerpOut.factor = <<1, 1>>
    /\ lerpIn.start # lerpIn.end
    /\ lerpIn.start # 0
    /\ lerpOut.result = lerpIn.end

\* x lies between p and q, inclusive, whichever of the two is larger.
Between(x, p, q) == Min(p, q) <= x /\ x <= Max(p, q)

\* The last two calls of lerp, on the same a and b, had factors f1 <= f2.
TwoCalls == lerpOut.applied /\ lerpOut.applied0

FactorLeq(f, g) == f[1] * g[2] <= g[1] * f[2]

\* lerp(a, b, 1) as computed: a + (b - a), the difference rounded.
LerpAtOne == Add(lerpIn.start, Sub(lerpIn.end, lerpIn.start))

\* The difference b - a is computed without rounding.
ExactDifference ==
    Sub(lerpIn.end, lerpIn.start) = lerpIn.end - lerpIn.start

\* lerp(a, b, f1) lies between a and lerp(a, b, f2) for the two calls made.
MonotonicInFactor ==
    /\ FactorLeq(lerpOut.factor0, lerpOut.factor)
          => Between(lerpOut.result0, lerpIn.start, lerpOut.result)
    /\ FactorLeq(lerpOut.factor, lerpOut.factor0)
          => Between(lerpOut.result, lerpIn.start, lerpOut.result0)

\* C11 (as stated): for factors 0 <= f1 <= f2 <= 1, lerp(a, b, f1) lies
\* between a and lerp(a, b, f2), so the result is in [min(a,b), max(a,b)].
C11_LerpMonotonicWithinAB ==
    /\ TwoCalls => MonotonicInFactor
    /\ lerpOut.applied => Between(lerpOut.result, lerpIn.start, lerpIn.end)

\* C11 (amended): lerp(a, b, f1) lies between a and lerp(a, b, f2); the
\* result lies between a and lerp(a, b, 1) = a + round(b - a), which is in
\* [min(a,b), max(a,b)] when b - a is computed without rounding.
C11_LerpMonotonicWithinReach ==
    /\ TwoCalls => MonotonicInFactor
    /\ lerpOut.applied => Between(lerpOut.result, lerpIn.start, LerpAtOne)
    /\ (lerpOut.applied /\ ExactDifference)
          => Between(lerpOut.result, lerpIn.start, lerpIn.end)

\* C11 witness: two calls with factors f1 < f2 gave results strictly in
\* order between a and b.
C11_Witness ==
    /\ TwoCalls
    /\ lerpIn.start < lerpIn.end
    /\ FactorLeq(lerpOut.factor0, lerpOut.factor)
    /\ lerpOut.factor0 # lerpOut.factor
    /\ lerpIn.start < lerpOut.result0
    /\ lerpOut.result0 < lerpOut.result
    /\ lerpOut.result < lerpIn.end

\* The last operation was a frame that wrote the progress thumb.
ThumbWritten ==
    /\ last.op = "tick"
    /\ mounted
    /\ Horizontal(variant, innerWidth)
    /\ maxScroll > 0

\* C12: a frame that updates the thumb sets its translateX to
\* min(max(currentX / maxScroll, 0), 1) * 224 with the currentX of that
\* frame, a value in [0, 224]; for currentX = 250 and maxScroll = 500 it is 112.
C12_ThumbFollowsCurrentX ==
    /\ ThumbWritten =>
          /\ thumbTransform.set
          /\ thumbTransform.x =
                MulQ(Min(Max(Div(currentX, maxScroll), 0), Px(1)), TrackLength, 1)
          /\ (currentX = Px(250) /\ maxScroll = Px(500))
                => thumbTransform.x = Px(112)
    /\ thumbTransform.set =>
          0 <= thumbTransform.x /\ thumbTransform.x <= Px(TrackLength)

\* C12 witness: a frame brought currentX to 250 at maxScroll 500.
C12_Witness ==
    /\ ThumbWritten
    /\ currentX = Px(250)
    /\ last.currentX # currentX
    /\ maxScroll = Px(500)
    /\ thumbTransform = [set |-> TRUE, x |-> Px(112)]

\* The last operation was a frame that wrote the container's transform
\* with a zoom.
ZoomWritten ==
    /\ last.op = "tick"
    /\ mounted
    /\ Horizontal(variant, innerWidth)

\* A quarter of the viewport width, where the zoom bottoms out.
ZoomRange == MulQ(innerWidth, 1, 4)

\* C13: the zoom written by a frame depends on that frame's currentX and on
\* the viewport width only; it is 1.5 at currentX = 0, it is 1.0 whenever
\* |currentX| >= 0.25 * viewportWidth, and it always lies in [1.0, 1.5].
C13_ZoomFromPosition ==
    /\ ZoomWritten =>
          /\ containerTransform.kind = "matrix"
          /\ containerTransform.scale =
                Sub(Lit(3, 2),
                    MulQ(Min(Div(Abs(currentX), ZoomRange), Px(1)), 1, 2))
          /\ currentX = 0 => containerTransform.scale = Lit(3, 2)
          /\ Abs(currentX) >= ZoomRange => containerTransform.scale = Px(1)
    /\ containerTransform.kind = "matrix" =>
          /\ Px(1) <= containerTransform.scale
          /\ containerTransform.scale <= Lit(3, 2)

\* C13 witness: a frame carried currentX past a quarter of the viewport and
\* the zoom, above 1.0 the frame before, came down to 1.0.
C13_Witness ==
    /\ ZoomWritten
    /\ Abs(last.currentX) < ZoomRange
    /\ Abs(currentX) >= ZoomRange
    /\ last.containerT.scale > Px(1)
    /\ last.containerT.scale < Lit(3, 2)
    /\ containerTransform.scale = Px(1)

\* C14: once the unmount cleanup has run, no frame request is outstanding,
\* animate() is not called again and no new request is made, at whatever
\* point between two frames the unmount happened.
C14_NoFrameAfterUnmount ==
    /\ [](~mounted => rafPending = 0)
    /\ [][~mounted => (nFrames' = nFrames /\ rafPending' = 0)]_vars

\* C14 witness: the component unmounted after some frames had run, and a
\* timer callback ran after the unmount.
C14_Witness ==
    /\ ~mounted
    /\ nFrames >= 3
    /\ rafPending = 0
    /\ last.op \in {"layout", "hovertimer"}

\* C15: after the unmount cleanup none of the listeners the component
\* attached is still registered: mousemove, resize and wheel on the window,
\* mouseenter/mouseleave on every hover target.
C15_ListenersRemoved == ~mounted => listeners = {}

\* What the last operation left as it was: the eased values and every
\* element's transform.
OutputsKept ==
    /\ currentX = last.currentX
    /\ skew = last.skew
    /\ cursor = last.cursor
    /\ containerTransform = last.containerT
    /\ cursorTransform = last.cursorT
    /\ thumbTransform = last.thumb
    /\ flowTextTransform = last.flowT

\* C16: the pointer-move handler changes only the raw pointer coordinates
\* and the wheel handler only targetX; neither writes currentX, skew, the
\* smoothed cursor or any element's transform.
C16_InputsWriteTargetsOnly ==
    /\ last.op = "mousemove" =>
          OutputsKept /\ targetX = last.targetX /\ maxScroll = last.maxScroll
    /\ last.op = "wheel" =>
          OutputsKept /\ mouse = last.mouse /\ maxScroll = last.maxScroll

\* The distance between the smoothed cursor and the raw pointer (one of the
\* two coordinates is at rest in the runs followed).
CursorDistance == Abs(mouse.x - cursor.x) + Abs(mouse.y - cursor.y)

\* Exactly n frames have run since mount, the pointer having moved before
\* the first of them.
FramesSinceMove(n) ==
    /\ last.op = "tick"
    /\ nFrames = n + 1
    /\ nFrames < MaxFrames
    /\ variant = "part_000"

\* C17 (as stated): with the pointer held 500 px from the cursor, after 30
\* frames at factor 0.15 the cursor is less than 1 px from the pointer.
C17_CursorWithinOnePixel == FramesSinceMove(30) => CursorDistance < Px(1)

\* C17 (amended): after 30 frames at factor 0.15 the cursor is still more
\* than 1 px (and less than 6 px) from the pointer, 500 * 0.85^30 = 3.8 px
\* up to rounding; the distance never grows from one frame to the next.
C17_CursorStillShort ==
    /\ FramesSinceMove(30) =>
          Px(1) < CursorDistance /\ CursorDistance < Px(6)
    /\ (last.op = "tick" /\ variant # "App") =>
          CursorDistance <= Abs(last.mouse.x - last.cursor.x)
                               + Abs(last.mouse.y - last.cursor.y)

\* C17 witness: thirty frames have run since the pointer moved 500 px away.
C17_Witness ==
    /\ FramesSinceMove(30)
    /\ CursorDistance > 0
    /\ mouse \in {[x |-> Px(500), y |-> 0], [x |-> 0, y |-> Px(500)]}

C19_ThumbSkippedWithoutRange ==
    /\ (last.op = "tick" /\ maxScroll <= 0) =>
          thumbTransform = last.thumb /\ thumbDivisor = {}
    /\ thumbTransform # last.thumb => (last.op = "tick" /\ maxScroll > 0)
    /\ \A d \in thumbDivisor : d > 0

\* C19 witness: the page was scrolled, the content was then measured
\* narrower than the viewport, and a frame moved currentX with maxScroll < 0.
C19_Witness ==
    /\ last.op = "tick"
    /\ maxScroll < 0
    /\ currentX > last.currentX
    /\ thumbTransform = last.thumb
    /\ thumbDivisor = {}

\* C20: a failed clipboard write leaves the button label as it was and
\* starts no label timer, and changes nothing else.
C20_FailedCopyChangesNothing ==
    /\ [](copyLast.op = "rejected" =>
             label = copyLast.label /\ revertTimers = copyLast.revertTimers)
    /\ [][(copyLast'.op = "rejected" /\ pendingWrites' < pendingWrites) =>
             UNCHANGED <<label, revertTimers, appVars, revealVars, lerpVars>>]_vars

\* C20 witness: a write failed while the label of an earlier, successful
\* click was showing and another write was still under way.
C20_Witness ==
    /\ copyLast.op = "rejected"
    /\ label = "Copied"
    /\ revertTimers >= 1
    /\ pendingWrites >= 1

\* C21: for every successful clipboard write, in any sequence of clicks, the
\* label is "Copied" throughout the 2000 ms that follow that write.  The
\* label timers all have the same delay and fire in the order they were
\* started, so while a timer is outstanding the 2000 ms of the write that
\* started it have not elapsed: the label would have to be "Copied" whenever
\* a label timer is outstanding.
C21_CopiedWhileTimerPending == revertTimers > 0 => label = "Copied"

\* The timers started by mount.
MountTimers == {"intro100", "layout100", "layout500", "hover500"}

\* A step that unmounts the component or runs the cleanup of its effect.
UnmountStep ==
    \/ mounted /\ ~mounted'
    \/ "wheel" \in listeners /\ "wheel" \notin listeners'

\* C22: a one-shot timer started by the component (intro 100 ms, layout
\* 100 / 500 ms, hover attachment 500 ms, label revert 2000 ms) is not
\* cancelled by unmount: no unmounting step removes a timer, timers go one at
\* a time and none is started again, and once the component has unmounted
\* every timer still outstanding runs later on.
C22_TimersSurviveUnmount ==
    /\ [][UnmountStep => timers' = timers /\ revertTimers' = revertTimers]_vars
    /\ [][timers' # timers => \E t \in timers : timers' = timers \ {t}]_vars
    /\ [][timers' \subseteq timers /\ timers \subseteq MountTimers]_vars
    /\ ~mounted ~> (timers = {})
    /\ (~mounted /\ revertTimers > 0) ~> (copyLast.op = "revert")

\* Unmounted with the layout timers and the label timer still outstanding,
\* and later: both have run, a layout timer right after the unmount.
C22_Witness ==
    /\ ~mounted
    /\ timers = {}
    /\ revertTimers = 0
    /\ copyLast.op = "revert"
    /\ copyLast.revertTimers = 1
    /\ last.op = "layout"
    /\ last.op0 \in {"unmount", "cleanup"}

\* C23: hover reverts: a pointer-enter followed by a pointer-leave leaves the
\* cursor element's class set as it was before the pointer-enter, in every
\* variant.  Stated for the enter that finds the cursor as it was rendered.
C23_HoverReverts ==
    (/\ last.op = "mouseleave"
     /\ last.op0 = "mouseenter"
     /\ last.classes0 = CursorClassName(variant))
        => cursorClasses = last.classes0

\* C24: while the component is mounted exactly one animation-frame request
\* is pending after every tick (and from mount on, whose effect runs animate
\* once), and there are never two requests pending at once.
C24_OneFramePending ==
    /\ rafPending <= 1
    /\ mounted => rafPending = 1

\* Two ticks in a row on the mounted page, one request pending.
C24_Witness ==
    /\ mounted
    /\ last.op = "tick"
    /\ last.op0 = "tick"
    /\ nFrames >= 2
    /\ rafPending = 1

\* The last step was a frame of a variant with skew, in horizontal mode.
SkewTick == last.op = "tick" /\ HasSkew(variant) /\ Horizontal(variant, innerWidth)

\* s + ((t - c1) * 0.001 - s) * 0.1
SkewFrom(s, c1, t) ==
    Add(s, MulQ(Sub(MulQ(Sub(t, c1), 1, 1000), s), 1, 10))

DetachedTick == last.op = "tick" /\ ~mounted

\* start + (end - start) * f, f = n / d
Eased(start, end, f) == Add(start, MulQ(Sub(end, start), f[1], f[2]))

\* C26: on a tick where the render-target refs are not attached only the
\* writes to the elements are skipped: no transform changes, currentX, skew
\* and the smoothed cursor advance as on any tick, and the next frame is
\* requested.
C26_DetachedTickAdvances ==
    DetachedTick =>
        /\ containerTransform = last.containerT
        /\ cursorTransform = last.cursorT
        /\ thumbTransform = last.thumb
        /\ flowTextTransform = last.flowT
        /\ Horizontal(variant, innerWidth) =>
              currentX = Eased(last.currentX, last.targetX, ScrollFactor(variant))
        /\ HasSkew(variant) /\ Horizontal(variant, innerWidth) =>
              skew = SkewFrom(last.skew, currentX, last.targetX)
        /\ variant # "App" =>
              /\ cursor.x = Eased(last.cursor.x, last.mouse.x, CursorFactor(variant))
              /\ cursor.y = Eased(last.cursor.y, last.mouse.y, CursorFactor(variant))
        /\ rafPending = 1

\* A frame between the detaching of the refs and the cleanup of the effect:
\* position, skew and cursor moved, the container kept its transform.
C26_Witness ==
    /\ DetachedTick
    /\ "wheel" \in listeners
    /\ HasSkew(variant)
    /\ currentX # last.currentX
    /\ skew # last.skew
    /\ cursor # last.cursor
    /\ containerTransform.tx # 0 - currentX
    /\ rafPending = 1

\* The page has a vertical mode and is in it.
InVerticalMode == HasVerticalMode(variant) /\ innerWidth < Px(Breakpoint)

\* C27: in the variant with a vertical mode a tick below 1024 leaves
\* currentX, skew and the thumb's transform unchanged and sets the
\* container's transform to "none"; no step taken in vertical mode changes
\* targetX, currentX or skew, so they keep their last horizontal-mode values
\* across any stay in vertical mode.
C27_VerticalModeHolds ==
    /\ [](InVerticalMode /\ last.op = "tick" =>
            /\ currentX = last.currentX
            /\ skew = last.skew
            /\ thumbTransform = last.thumb
            /\ mounted => containerTransform.kind = "none")
    /\ [][InVerticalMode =>
            targetX' = targetX /\ currentX' = currentX /\ skew' = skew]_vars

\* Scrolled part of the way in horizontal mode, then resized below 1024: the
\* frame takes the container's matrix away and leaves the rest, although the
\* position has not reached its target.
C27_Witness ==
    /\ InVerticalMode
    /\ last.op = "tick"
    /\ last.containerT.kind = "matrix"
    /\ containerTransform.kind = "none"
    /\ currentX > 0
    /\ currentX < targetX
    /\ skew # 0
    /\ thumbTransform.set

\* C28: in every reachable state currentX is non-negative and does not
\* exceed the largest value maxScroll has held so far.
C28_CurrentXWithinPeak == 0 <= currentX /\ currentX <= maxScrollPeak

\* The page was scrolled and then measured shorter: after a frame currentX
\* lies above maxScroll and within the largest maxScroll there has been.
C28_Witness ==
    /\ last.op = "tick"
    /\ currentX > last.currentX
    /\ maxScroll < currentX
    /\ maxScroll < maxScrollPeak
    /\ currentX <= maxScrollPeak

UnmeasuredUpTo(i) == \A j \in 1..i : wheelLog[j].maxScroll = 0

\* C30: until the first layout measurement has run (maxScroll still at its
\* initial 0) every wheel event leaves targetX at 0.
C30_WheelBeforeMeasurementDiscarded ==
    /\ \A i \in 1..Len(wheelLog) :
          UnmeasuredUpTo(i) =>
              wheelLog[i].before = 0 /\ wheelLog[i].after = 0
    /\ maxScrollPeak = 0 /\ maxScroll = 0 => targetX = 0

\* Two wheel events, forwards and further forwards, handled in horizontal
\* mode right after mount, the layout timers all still to run.
C30_Witness ==
    /\ LayoutTimers(variant) \subseteq timers
    /\ nEvents = 2
    /\ Len(wheelLog) = 2
    /\ wheelLog[1].d > 0
    /\ wheelLog[2].d > wheelLog[1].d
    /\ wheelLog[2].defaultPrevented
    /\ UnmeasuredUpTo(2)
    /\ targetX = 0

====
